---- MODULE Spec2Model ----
(***************************************************************************)
(* The Ethereum-compatible RPC facade of Frontier (rpc/src/lib.rs):       *)
(* EthApi and its EthApiT methods, with the collaborators they call (the  *)
(* chain selector, the runtime API, the transaction pool, the transaction *)
(* converter) as the environment.                                         *)
(***************************************************************************)
EXTENDS Integers, Sequences, FiniteSets, TLC

\* ------------------------------------------------------------------ bounds

\* Width, in bits, the model gives a u32 (the source's is 32).
U32Bits == 2
\* Longest raw payload handed to send_raw_transaction, in bytes.
MaxLen == 3
\* Fields of a signed transaction (ethereum::Transaction has 9).
TxFields == 1

\* ---------------------------------------------------------------- integers

RECURSIVE Pow2(_)
Pow2(n) == IF n = 0 THEN 1 ELSE 2 * Pow2(n - 1)

U32Max == Pow2(U32Bits) - 1
\* A u64 (BlockNumber::Num, the header's number) is one bit wider here.
U64Max == Pow2(U32Bits + 1) - 1
U64 == 0 .. U64Max
\* The chain grows one block past the u32 range.
MaxHeight == U32Max + 1

\* UniqueSaturatedInto<u32>: the value if it fits, else u32::MAX.
unique_saturated_into_u32(n) == IF n > U32Max THEN U32Max ELSE n

\* ErrorCode::InternalError of jsonrpc_core.
InternalError == -32603

\* --------------------------------------------------------------------- RLP

\* The bytes payloads are made of: 0x01, 0x81, 0xc2.
ByteAlphabet == {1, 129, 194}

RECURSIVE SeqsUpTo(_, _)
SeqsUpTo(S, n) ==
    IF n = 0 THEN {<<>>}
    ELSE LET shorter == SeqsUpTo(S, n - 1)
         IN  shorter \cup {Append(s, b) : s \in {t \in shorter : Len(t) = n - 1}, b \in S}

Payloads == SeqsUpTo(ByteAlphabet, MaxLen)

RlpErr == [ok |-> FALSE]

\* BasicDecoder::payload_info and the slice Rlp::at cuts: the first item of
\* bs as [ok, list, value, size], size being header plus value.
payload_info(bs) ==
    IF Len(bs) = 0 THEN RlpErr
    ELSE LET b == bs[1]
         IN  IF b < 128
                 THEN [ok |-> TRUE, list |-> FALSE, value |-> <<b>>, size |-> 1]
             ELSE IF b < 184
                 THEN LET n == b - 128
                      IN  IF Len(bs) < 1 + n THEN RlpErr
                          ELSE IF n = 1 /\ bs[2] < 128 THEN RlpErr
                          ELSE [ok |-> TRUE, list |-> FALSE,
                                value |-> SubSeq(bs, 2, 1 + n), size |-> 1 + n]
             ELSE IF b < 192 THEN RlpErr
             ELSE IF b < 248
                 THEN LET n == b - 192
                      IN  IF Len(bs) < 1 + n THEN RlpErr
                          ELSE [ok |-> TRUE, list |-> TRUE,
                                value |-> SubSeq(bs, 2, 1 + n), size |-> 1 + n]
             ELSE RlpErr

\* RlpIterator over a list's payload: the items up to the first that does
\* not parse.
RECURSIVE rlp_items(_)
rlp_items(bs) ==
    LET it == payload_info(bs)
    IN  IF ~it.ok THEN <<>>
        ELSE <<it>> \o rlp_items(SubSeq(bs, it.size + 1, Len(bs)))

\* rlp::decode::<ethereum::Transaction>: a list whose item count is
\* TxFields, each item data; bytes after the list are not looked at.
rlp_decode(bs) ==
    LET top == payload_info(bs)
    IN  IF ~top.ok \/ ~top.list THEN RlpErr
        ELSE LET items == rlp_items(top.value)
             IN  IF Len(items) # TxFields THEN RlpErr
                 ELSE IF \E i \in 1 .. Len(items) : items[i].list THEN RlpErr
                 ELSE [ok |-> TRUE,
                       tx |-> [i \in 1 .. Len(items) |-> items[i].value]]

rlp_encode_data(d) ==
    IF Len(d) = 1 /\ d[1] < 128 THEN d ELSE <<128 + Len(d)>> \o d

RECURSIVE rlp_concat(_)
rlp_concat(tx) ==
    IF Len(tx) = 0 THEN <<>>
    ELSE rlp_encode_data(Head(tx)) \o rlp_concat(Tail(tx))

\* rlp::encode(&transaction): the canonical list encoding.
rlp_encode(tx) ==
    LET body == rlp_concat(tx) IN <<192 + Len(body)>> \o body

\* Keccak256::digest, taken collision-free: the digest names its preimage.
Keccak256(bs) == [keccak |-> bs]

ValidPayloads == {bs \in Payloads : rlp_decode(bs).ok}
Txs == {rlp_decode(bs).tx : bs \in ValidPayloads}

\* ------------------------------------------------------------------- state

VARIABLES
    chain,       \* the canonical chain: chain[n] is the transactions of block n
    selectorOk,  \* whether select_chain.best_chain() answers
    runtimeOk,   \* whether the runtime API answers
    submitted,   \* the pool: the extrinsics submit_one received, each with its future
    last,        \* the RPC call handled last: method, arguments, outcome, trace
    sameHead     \* answers by-number lookups gave since the head last changed

vars == <<chain, selectorOk, runtimeOk, submitted, last, sameHead>>

\* --------------------------------------------------------- values and results

None == <<>>
Some(v) == <<v>>

Ok(v) == [kind |-> "ok", value |-> v]
\* internal_err(message)
internal_err(message) == [kind |-> "err", code |-> InternalError, message |-> message]
\* unimplemented!(message): the handler panics.
unimplemented(message) == [kind |-> "panic", message |-> message]

\* BlockNumber of frontier_rpc_core::types.
Earliest == [tag |-> "Earliest"]
Latest == [tag |-> "Latest"]
Pending == [tag |-> "Pending"]
Num(n) == [tag |-> "Num", n |-> n]
BlockNumbers == {Earliest, Latest, Pending} \cup {Num(n) : n \in U64}

\* BlockNumber::to_min_block_num: the height of a Num, nothing for a tag.
to_min_block_num(number) ==
    IF number.tag = "Num" THEN Some(number.n) ELSE None

Addresses == {0, 1}

\* ------------------------------------------------------------ collaborators

\* The head the chain selector reports: its number and hash.
height == Len(chain)
HeaderHash(n) == [block |-> n]
header == [number |-> height, hash |-> HeaderHash(height)]

\* select_chain.best_chain()
best_chain == IF selectorOk THEN Ok(header) ELSE [kind |-> "err"]

\* The Ethereum block the runtime stored when block n was finalized.
EthBlockHash(n) == [ethblock |-> n]
EthBlock(n) ==
    [header |-> [parent_hash |-> EthBlockHash(n - 1), state_root |-> [root |-> n],
                 transactions_root |-> [root |-> chain[n]], receipts_root |-> [root |-> n],
                 number |-> n, gas_used |-> Len(chain[n]), gas_limit |-> U64Max,
                 logs_bloom |-> [bloom |-> n], timestamp |-> n, difficulty |-> 0],
     transactions |-> chain[n]]

\* EthereumRuntimeApi, called at the head: each answer is Err when the
\* runtime call fails.
RuntimeCall(v) == IF runtimeOk THEN Ok(v) ELSE [kind |-> "err"]

runtime_block_by_number(number_param) ==
    RuntimeCall(IF number_param \in 1 .. height THEN Some(EthBlock(number_param)) ELSE None)

runtime_block_by_hash(hash) ==
    RuntimeCall(IF \E n \in 1 .. height : EthBlockHash(n) = hash
                    THEN Some(EthBlock(CHOOSE n \in 1 .. height : EthBlockHash(n) = hash))
                    ELSE None)

runtime_block_transaction_count_by_number(number_param) ==
    RuntimeCall(IF number_param \in 1 .. height
                    THEN Some(Len(chain[number_param])) ELSE None)

\* The status the runtime stored when it executed a transaction: keyed by,
\* and carrying, the Keccak-256 hash of the transaction's RLP encoding.
TransactionStatus(n, i) ==
    [transaction_hash |-> Keccak256(rlp_encode(chain[n][i])), transaction_index |-> i - 1,
     from |-> 0, to |-> Some(1), contract_address |-> None]

Processed ==
    UNION {{TransactionStatus(n, i).transaction_hash : i \in 1 .. Len(chain[n])} :
           n \in 1 .. height}

runtime_transaction_status(hash) ==
    RuntimeCall(IF \E n \in 1 .. height : \E i \in 1 .. Len(chain[n]) :
                       TransactionStatus(n, i).transaction_hash = hash
                    THEN LET n == CHOOSE m \in 1 .. height : \E i \in 1 .. Len(chain[m]) :
                                      TransactionStatus(m, i).transaction_hash = hash
                             i == CHOOSE j \in 1 .. Len(chain[n]) :
                                      TransactionStatus(n, j).transaction_hash = hash
                         IN  Some(TransactionStatus(n, i))
                    ELSE None)

runtime_account_basic(address) ==
    RuntimeCall([balance |-> 10 + address, nonce |-> address])

runtime_account_code_at(address) == RuntimeCall(<<96, address>>)
runtime_author == RuntimeCall(1)
runtime_chain_id == RuntimeCall(42)
runtime_gas_price == RuntimeCall(1)

\* What a handler did: its outcome and the collaborator calls it made, in
\* order, each with whether it answered.
Result(outcome, trace) == [outcome |-> outcome, trace |-> trace]
Called(call, answer) == [call |-> call, ok |-> answer.kind = "ok"]
CalledWith(call, arg, answer) == [call |-> call, ok |-> answer.kind = "ok", arg |-> arg]

\* ---------------------------------------------------------------- handlers

\* rich_block_build
rich_block_build(block) ==
    [hash |-> None, parent_hash |-> block.header.parent_hash, uncles_hash |-> 0,
     author |-> 0, miner |-> 0, state_root |-> block.header.state_root,
     transactions_root |-> block.header.transactions_root,
     receipts_root |-> block.header.receipts_root,
     number |-> Some(block.header.number), gas_used |-> block.header.gas_used,
     gas_limit |-> block.header.gas_limit, extra_data |-> <<>>,
     logs_bloom |-> Some(block.header.logs_bloom), timestamp |-> block.header.timestamp,
     difficulty |-> block.header.difficulty, total_difficulty |-> None,
     seal_fields |-> <<>>, uncles |-> <<>>, transactions |-> <<>>, size |-> None]

\* A method of the shape: best_chain()?, then one runtime query mapped with
\* map_err(internal_err)?, then Ok(map(value)).
HeadThenQuery(call, answer, message, value) ==
    IF best_chain.kind # "ok"
        THEN Result(internal_err("fetch header failed"), <<Called("best_chain", best_chain)>>)
    ELSE IF answer.kind # "ok"
        THEN Result(internal_err(message),
                    <<Called("best_chain", best_chain), Called(call, answer)>>)
    ELSE Result(Ok(value), <<Called("best_chain", best_chain), Called(call, answer)>>)

\* author
author ==
    HeadThenQuery("author", runtime_author, "fetch runtime chain id failed",
                  IF runtime_author.kind = "ok" THEN runtime_author.value ELSE None)

\* chain_id
chain_id ==
    HeadThenQuery("chain_id", runtime_chain_id, "fetch runtime chain id failed",
                  IF runtime_chain_id.kind = "ok" THEN Some(runtime_chain_id.value) ELSE None)

\* gas_price
gas_price ==
    HeadThenQuery("gas_price", runtime_gas_price, "fetch runtime chain id failed",
                  IF runtime_gas_price.kind = "ok" THEN runtime_gas_price.value ELSE None)

\* block_number
block_number ==
    IF best_chain.kind # "ok"
        THEN Result(internal_err("fetch header failed"), <<Called("best_chain", best_chain)>>)
    ELSE Result(Ok(best_chain.value.number), <<Called("best_chain", best_chain)>>)

\* The guard balance, transaction_count and code_at open with: a number
\* that is given and is not Latest.
NotLatest(number) == number # None /\ number[1] # Latest

\* balance
balance(address, number) ==
    IF NotLatest(number)
        THEN Result(unimplemented("fetch nonce for past blocks is not yet supported"), <<>>)
    ELSE LET basic == runtime_account_basic(address)
         IN  HeadThenQuery("account_basic", basic, "fetch runtime chain id failed",
                           IF basic.kind = "ok" THEN basic.value.balance ELSE None)

\* transaction_count
transaction_count(address, number) ==
    IF NotLatest(number)
        THEN Result(unimplemented("fetch nonce for past blocks is not yet supported"), <<>>)
    ELSE LET basic == runtime_account_basic(address)
         IN  HeadThenQuery("account_basic", basic, "fetch runtime account basic failed",
                           IF basic.kind = "ok" THEN basic.value.nonce ELSE None)

\* code_at
code_at(address, number) ==
    IF NotLatest(number)
        THEN Result(unimplemented("fetch nonce for past blocks is not yet supported"), <<>>)
    ELSE LET code == runtime_account_code_at(address)
         IN  HeadThenQuery("account_code_at", code, "fetch runtime chain id failed",
                           IF code.kind = "ok" THEN code.value ELSE None)

\* block_by_hash
block_by_hash(hash) ==
    IF best_chain.kind # "ok"
        THEN Result(internal_err("fetch header failed"), <<Called("best_chain", best_chain)>>)
    ELSE LET answer == runtime_block_by_hash(hash)
             trace == <<Called("best_chain", best_chain),
                        CalledWith("block_by_hash", hash, answer)>>
         IN  IF answer.kind = "ok" /\ answer.value # None
                 THEN Result(Ok(Some(rich_block_build(answer.value[1]))), trace)
                 ELSE Result(Ok(None), trace)

\* A number_param whose Latest branch wraps the head's number into a u32.
number_param_wrapping(number, head) ==
    IF to_min_block_num(number) # None
        THEN Some(unique_saturated_into_u32(to_min_block_num(number)[1]))
    ELSE IF number = Latest
        THEN Some(head.number % (U32Max + 1))
    ELSE None

\* The number_param of block_by_number and block_transaction_count_by_number:
\* a u32, or nothing where the code reaches unimplemented!.
number_param(number, head) ==
    IF to_min_block_num(number) # None
        THEN Some(unique_saturated_into_u32(to_min_block_num(number)[1]))
    ELSE IF number = Latest
        THEN Some(unique_saturated_into_u32(head.number))
    ELSE None

\* block_by_number
block_by_number(number) ==
    IF best_chain.kind # "ok"
        THEN Result(internal_err("fetch header failed"), <<Called("best_chain", best_chain)>>)
    ELSE LET param == number_param(number, best_chain.value)
         IN  IF param = None
                 THEN Result(unimplemented("only latest or block number are supported"),
                             <<Called("best_chain", best_chain)>>)
             ELSE LET answer == runtime_block_by_number(param[1])
                      trace == <<Called("best_chain", best_chain),
                                 CalledWith("block_by_number", param[1], answer)>>
                  IN  IF answer.kind = "ok" /\ answer.value # None
                          THEN Result(Ok(Some(rich_block_build(answer.value[1]))), trace)
                          ELSE Result(Ok(None), trace)

\* block_transaction_count_by_number
block_transaction_count_by_number(number) ==
    IF best_chain.kind # "ok"
        THEN Result(internal_err("fetch header failed"), <<Called("best_chain", best_chain)>>)
    ELSE LET param == number_param(number, best_chain.value)
         IN  IF param = None
                 THEN Result(unimplemented("fetch count for past blocks is not yet supported"),
                             <<Called("best_chain", best_chain)>>)
             ELSE LET answer == runtime_block_transaction_count_by_number(param[1])
                      trace == <<Called("best_chain", best_chain),
                                 CalledWith("block_transaction_count_by_number", param[1], answer)>>
                  IN  IF answer.kind = "ok"
                          THEN Result(Ok(answer.value), trace)
                          ELSE Result(Ok(None), trace)

\* A Receipt that leaves transaction_hash unset.
Receipt_without_hash(status) ==
    [transaction_hash |-> None,
     transaction_index |-> Some(status.transaction_index),
     block_hash |-> Some(0), from |-> Some(status.from), to |-> status.to,
     block_number |-> Some(0), cumulative_gas_used |-> 0, gas_used |-> Some(0),
     contract_address |-> status.contract_address, logs |-> <<>>, state_root |-> None,
     logs_bloom |-> 0, status_code |-> None]

\* The Receipt transaction_receipt builds from a status.
Receipt(status) ==
    [transaction_hash |-> Some(status.transaction_hash),
     transaction_index |-> Some(status.transaction_index),
     block_hash |-> Some(0), from |-> Some(status.from), to |-> status.to,
     block_number |-> Some(0), cumulative_gas_used |-> 0, gas_used |-> Some(0),
     contract_address |-> status.contract_address, logs |-> <<>>, state_root |-> None,
     logs_bloom |-> 0, status_code |-> None]

\* transaction_receipt
transaction_receipt(hash) ==
    LET status == runtime_transaction_status(hash)
    IN  HeadThenQuery("transaction_status", status, "fetch runtime transaction status failed",
                      IF status.kind = "ok" /\ status.value # None
                          THEN Some(Receipt(status.value[1])) ELSE None)

\* The methods that only panic with unimplemented!.
PanickingMethods ==
    {"protocol_version", "syncing", "proof", "storage_at",
     "block_transaction_count_by_hash", "submit_transaction", "call", "estimate_gas",
     "transaction_by_hash", "transaction_by_block_hash_and_index",
     "transaction_by_block_number_and_index", "compilers", "compile_lll",
     "compile_solidity", "compile_serpent", "logs", "submit_work", "submit_hashrate"}

\* The methods that answer with a fixed value.
ConstantMethods ==
    {"hashrate", "is_mining", "accounts", "block_uncles_count_by_hash",
     "block_uncles_count_by_number", "uncle_by_block_hash_and_index",
     "uncle_by_block_number_and_index", "work", "is_listening", "version"}

\* The body of each method that reads no argument and calls no collaborator.
fixed_answer(method) ==
    CASE method \in PanickingMethods -> unimplemented(method)
      [] method \in {"hashrate", "block_uncles_count_by_hash",
                     "block_uncles_count_by_number"} -> Ok(0)
      [] method = "is_mining" -> Ok(FALSE)
      [] method = "accounts" -> Ok(<<>>)
      [] method \in {"uncle_by_block_hash_and_index",
                     "uncle_by_block_number_and_index"} -> Ok(None)
      [] method = "work" ->
            Ok([pow_hash |-> 0, seed_hash |-> 0, target |-> 0, number |-> None])
      [] method = "is_listening" -> Ok(TRUE)
      [] method = "version" -> Ok("2.0")

\* ------------------------------------------------------ transaction ingress

\* convert_transaction.convert_transaction(transaction): the extrinsic that
\* carries the transaction.
convert_transaction(transaction) == [transact |-> transaction]

\* The hashes a pool may compute of an extrinsic, one of which submit_one
\* answers with.
PoolHashes(xt) == {[blake2 |-> xt], [twox |-> xt]}

\* transaction_hash: Keccak-256 of the re-encoded transaction.
transaction_hash(transaction) == Keccak256(rlp_encode(transaction))

\* submit_one's arguments in send_raw_transaction.
submit_one(head, transaction) ==
    [at |-> head.hash, source |-> "Local", xt |-> convert_transaction(transaction)]

\* A send_raw_transaction that resolves the head before it decodes.
send_raw_transaction_head_first(bytes) ==
    LET decoded == rlp_decode(bytes)
    IN  IF best_chain.kind # "ok"
            THEN [outcome |-> internal_err("fetch header failed"),
                  steps |-> <<"best_chain">>, submits |-> <<>>]
        ELSE IF ~decoded.ok
            THEN [outcome |-> internal_err("decode transaction failed"),
                  steps |-> <<"best_chain", "decode">>, submits |-> <<>>]
        ELSE [outcome |-> [kind |-> "future"],
              steps |-> <<"best_chain", "decode", "hash", "convert", "submit_one">>,
              submits |-> <<[args |-> submit_one(best_chain.value, decoded.tx),
                             transaction_hash |-> transaction_hash(decoded.tx)]>>]

\* A send_raw_transaction that, with no head resolved, submits at genesis.
send_raw_transaction_without_head(bytes) ==
    LET decoded == rlp_decode(bytes)
        head == IF best_chain.kind = "ok" THEN best_chain.value
                ELSE [number |-> 0, hash |-> HeaderHash(0)]
    IN  IF ~decoded.ok
            THEN [outcome |-> internal_err("decode transaction failed"),
                  steps |-> <<"decode">>, submits |-> <<>>]
        ELSE [outcome |-> [kind |-> "future"],
              steps |-> <<"decode", "hash", "best_chain", "convert", "submit_one">>,
              submits |-> <<[args |-> submit_one(head, decoded.tx),
                             transaction_hash |-> transaction_hash(decoded.tx)]>>]

\* send_raw_transaction up to the future it returns: the steps taken, in
\* order; the outcome, a failed future or one waiting for the pool; the
\* hash the future's closure holds; what the pool was handed.
send_raw_transaction(bytes) ==
    LET decoded == rlp_decode(bytes)
    IN  IF ~decoded.ok
            THEN [outcome |-> internal_err("decode transaction failed"),
                  steps |-> <<"decode">>, submits |-> <<>>]
        ELSE IF best_chain.kind # "ok"
            THEN [outcome |-> internal_err("fetch header failed"),
                  steps |-> <<"decode", "hash", "best_chain">>, submits |-> <<>>]
        ELSE [outcome |-> [kind |-> "future"],
              steps |-> <<"decode", "hash", "best_chain", "convert", "submit_one">>,
              submits |-> <<[args |-> submit_one(best_chain.value, decoded.tx),
                             transaction_hash |-> transaction_hash(decoded.tx)]>>]

\* A future that resolves to the hash the pool answered with.
future_result_of_pool(captured_hash, answer) ==
    IF answer.kind = "ok" THEN Ok(answer.value)
    ELSE internal_err("submit transaction to pool failed")

\* What the future resolves to when the pool answers:
\* .map(move |_| transaction_hash).map_err(|_| internal_err(..)).
future_result(captured_hash, answer) ==
    IF answer.kind = "ok" THEN Ok(captured_hash)
    ELSE internal_err("submit transaction to pool failed")

\* ------------------------------------------------------------ initial state

NotAsked == [bn_latest |-> <<>>, bn_number |-> <<>>, cnt_latest |-> <<>>, cnt_number |-> <<>>]

Init ==
    /\ chain = <<>>
    /\ selectorOk = TRUE
    /\ runtimeOk = TRUE
    /\ submitted = <<>>
    /\ last = [method |-> "none"]
    /\ sameHead = NotAsked

\* ------------------------------------------------------------- environment

\* The chain imports an empty block.
AdvanceHead ==
    /\ height < MaxHeight
    /\ chain' = Append(chain, <<>>)
    /\ sameHead' = NotAsked
    /\ UNCHANGED <<selectorOk, runtimeOk, submitted, last>>

\* The chain imports a block that executes a transaction this node was
\* handed, whether or not its pool has answered yet, and which the
\* runtime has not executed before.
ProcessTransaction ==
    \E i \in 1 .. Len(submitted) :
        LET tx == submitted[i].xt.transact
        IN  /\ height < MaxHeight
            /\ transaction_hash(tx) \notin Processed
            /\ chain' = Append(chain, <<tx>>)
            /\ sameHead' = NotAsked
            /\ UNCHANGED <<selectorOk, runtimeOk, submitted, last>>

\* The chain selector starts or stops answering.
SetSelector ==
    /\ selectorOk' = ~selectorOk
    /\ sameHead' = NotAsked
    /\ UNCHANGED <<chain, runtimeOk, submitted, last>>

\* The runtime API starts or stops answering.
SetRuntime ==
    /\ runtimeOk' = ~runtimeOk
    /\ sameHead' = NotAsked
    /\ UNCHANGED <<chain, selectorOk, submitted, last>>

\* The pool accepts or rejects a submission, and the future that waits for
\* it resolves.
PoolAnswer ==
    \E i \in 1 .. Len(submitted) :
        \E answer \in {Ok(h) : h \in PoolHashes(submitted[i].xt)} \cup {[kind |-> "err"]} :
            /\ submitted[i].resolved = <<>>
            /\ submitted' = [submitted EXCEPT ![i].resolved =
                                 <<future_result(submitted[i].transaction_hash, answer)>>]
            /\ UNCHANGED <<chain, selectorOk, runtimeOk, last, sameHead>>

\* ------------------------------------------------------------------ actions

Handled(method, args, result) ==
    /\ last' = [method |-> method, args |-> args, outcome |-> result.outcome,
                trace |-> result.trace, head |-> header]
    /\ UNCHANGED <<chain, selectorOk, runtimeOk, submitted>>

Author == Handled("author", <<>>, author) /\ UNCHANGED sameHead
ChainId == Handled("chain_id", <<>>, chain_id) /\ UNCHANGED sameHead
GasPrice == Handled("gas_price", <<>>, gas_price) /\ UNCHANGED sameHead
BlockNumber == Handled("block_number", <<>>, block_number) /\ UNCHANGED sameHead

OptionalBlockNumbers == {None} \cup {Some(n) : n \in BlockNumbers}

Balance ==
    \E address \in Addresses, number \in OptionalBlockNumbers :
        /\ Handled("balance", [address |-> address, number |-> number],
                   balance(address, number))
        /\ UNCHANGED sameHead

TransactionCount ==
    \E address \in Addresses, number \in OptionalBlockNumbers :
        /\ Handled("transaction_count", [address |-> address, number |-> number],
                   transaction_count(address, number))
        /\ UNCHANGED sameHead

CodeAt ==
    \E address \in Addresses, number \in OptionalBlockNumbers :
        /\ Handled("code_at", [address |-> address, number |-> number],
                   code_at(address, number))
        /\ UNCHANGED sameHead

BlockHashes == {EthBlockHash(n) : n \in 0 .. MaxHeight}

BlockByHash ==
    \E hash \in BlockHashes :
        /\ Handled("block_by_hash", [hash |-> hash], block_by_hash(hash))
        /\ UNCHANGED sameHead

BlockByNumber ==
    \E number \in BlockNumbers :
        LET result == block_by_number(number)
        IN  /\ Handled("block_by_number", [number |-> number], result)
            /\ sameHead' =
                 IF number = Latest
                     THEN [sameHead EXCEPT !.bn_latest = <<result.outcome>>]
                 ELSE IF number = Num(height)
                     THEN [sameHead EXCEPT !.bn_number = <<result.outcome>>]
                 ELSE sameHead

BlockTransactionCountByNumber ==
    \E number \in BlockNumbers :
        LET result == block_transaction_count_by_number(number)
        IN  /\ Handled("block_transaction_count_by_number", [number |-> number], result)
            /\ sameHead' =
                 IF number = Latest
                     THEN [sameHead EXCEPT !.cnt_latest = <<result.outcome>>]
                 ELSE IF number = Num(height)
                     THEN [sameHead EXCEPT !.cnt_number = <<result.outcome>>]
                 ELSE sameHead

\* The hashes send_raw_transaction has returned: the futures resolved Ok.
Returned ==
    {submitted[i].resolved[1].value :
        i \in {j \in 1 .. Len(submitted) :
                  submitted[j].resolved # <<>> /\ submitted[j].resolved[1].kind = "ok"}}

\* Whether the chain has executed the transaction of a submission.
Executed(i) ==
    \E n \in 1 .. height : \E k \in 1 .. Len(chain[n]) : chain[n][k] = submitted[i].xt.transact

\* The submissions whose future resolved to hash.
ReturnedAs(hash) == {i \in 1 .. Len(submitted) : submitted[i].resolved = <<Ok(hash)>>}

TxHashes == {transaction_hash(tx) : tx \in Txs} \cup Returned \cup {Keccak256(<<>>)}

\* transaction_receipt, noting whether the runtime held a status under the
\* hash, whether the hash had been returned to a submitter and whether the
\* chain had executed what was submitted.
TransactionReceipt ==
    \E hash \in TxHashes :
        /\ Handled("transaction_receipt",
                   [hash |-> hash, known |-> hash \in Processed,
                    returned |-> ReturnedAs(hash) # {},
                    processed |-> \E i \in ReturnedAs(hash) : Executed(i)],
                   transaction_receipt(hash))
        /\ UNCHANGED sameHead

FixedAnswer ==
    \E method \in PanickingMethods \cup ConstantMethods :
        /\ Handled(method, <<>>, Result(fixed_answer(method), <<>>))
        /\ UNCHANGED sameHead

\* The two submissions the pool takes: the runs the claims compare.
Runs == {1, 2}

\* send_raw_transaction: the call's record keeps what decoding made of the
\* payload and the head the chain was at.
SendRawTransaction ==
    \E bytes \in Payloads :
        LET sent == send_raw_transaction(bytes)
            call == Len(submitted) + 1
        IN  /\ call \in Runs
            /\ submitted' = submitted \o
                   [k \in 1 .. Len(sent.submits) |->
                       [call |-> call, bytes |-> bytes, xt |-> sent.submits[k].args.xt,
                        transaction_hash |-> sent.submits[k].transaction_hash,
                        resolved |-> <<>>]]
            /\ last' = [method |-> "send_raw_transaction",
                        args |-> [decoded |-> rlp_decode(bytes)],
                        outcome |-> sent.outcome, steps |-> sent.steps,
                        submits |-> sent.submits, call |-> call,
                        head |-> header, selectorOk |-> selectorOk]
            /\ UNCHANGED <<chain, selectorOk, runtimeOk, sameHead>>

\* ----------------------------------------------------------- specifications

\* The read side: every query method, over a chain that grows.
Next ==
    \/ AdvanceHead
    \/ SetSelector
    \/ SetRuntime
    \/ Author
    \/ ChainId
    \/ GasPrice
    \/ BlockNumber
    \/ Balance
    \/ TransactionCount
    \/ CodeAt
    \/ BlockByHash
    \/ BlockByNumber
    \/ BlockTransactionCountByNumber
    \/ TransactionReceipt
    \/ FixedAnswer

Spec == Init /\ [][Next]_vars

\* The lookups by block number, over a chain that grows.
NextByNumber ==
    \/ AdvanceHead
    \/ SetSelector
    \/ SetRuntime
    \/ BlockByNumber
    \/ BlockTransactionCountByNumber

SpecByNumber == Init /\ [][NextByNumber]_vars

\* The ingress pipeline: submissions, and the pool answering them.
NextIngress ==
    \/ AdvanceHead
    \/ SetSelector
    \/ SendRawTransaction
    \/ PoolAnswer

SpecIngress == Init /\ [][NextIngress]_vars

\* Submission to receipt: submissions, the pool, the chain executing
\* transactions, and receipt lookups.
NextEndToEnd ==
    \/ ProcessTransaction
    \/ SetSelector
    \/ SetRuntime
    \/ SendRawTransaction
    \/ PoolAnswer
    \/ TransactionReceipt

SpecEndToEnd == Init /\ [][NextEndToEnd]_vars

\* The ingress pipeline with a pool that answers every submission.
SpecIngressFair == SpecIngress /\ WF_vars(PoolAnswer)

\* ------------------------------------------------------------------- claims

IsSend == last.method = "send_raw_transaction"
IsQuery == last.method \notin {"none", "send_raw_transaction"}

\* C1: a payload that does not decode ends send_raw_transaction with the
\* decode-failure error after the decode step alone: the head resolver and
\* the converter are not reached, nothing is handed to the pool and the
\* pool holds what it held before the call.
C1_DecodeFailureStopsAtDecode ==
    IsSend /\ ~last.args.decoded.ok =>
        /\ last.outcome = internal_err("decode transaction failed")
        /\ last.steps = <<"decode">>
        /\ last.submits = <<>>
        /\ Len(submitted) = last.call - 1

C1_Witness ==
    /\ IsSend
    /\ ~last.args.decoded.ok
    /\ last.call = 2
    /\ height > 0

\* C2: a future the pool accepted resolves to the Keccak-256 hash of the
\* re-encoded decoding of the call's own bytes, never to the hash the pool
\* answered with, so two accepted submissions of the same bytes resolve to
\* the same hash whatever the head and the pool were.
C2_HashFromBytesAlone ==
    /\ \A i \in 1 .. Len(submitted) :
            submitted[i].resolved # <<>> /\ submitted[i].resolved[1].kind = "ok" =>
                /\ submitted[i].resolved[1].value =
                       Keccak256(rlp_encode(rlp_decode(submitted[i].bytes).tx))
                /\ submitted[i].resolved[1].value \notin PoolHashes(submitted[i].xt)
    /\ \A i, j \in 1 .. Len(submitted) :
            /\ submitted[i].bytes = submitted[j].bytes
            /\ submitted[i].resolved # <<>> /\ submitted[i].resolved[1].kind = "ok"
            /\ submitted[j].resolved # <<>> /\ submitted[j].resolved[1].kind = "ok"
            => submitted[i].resolved = submitted[j].resolved

\* Two accepted submissions of the same bytes, which are not their own
\* canonical encoding, the second made past genesis.
C2_Witness ==
    /\ Len(submitted) = 2
    /\ submitted[1].bytes = submitted[2].bytes
    /\ rlp_encode(rlp_decode(submitted[1].bytes).tx) # submitted[1].bytes
    /\ submitted[1].resolved # <<>> /\ submitted[1].resolved[1].kind = "ok"
    /\ submitted[2].resolved # <<>> /\ submitted[2].resolved[1].kind = "ok"
    /\ IsSend /\ last.submits # <<>> /\ last.head.number > 0

\* C3: a call with a block reference the method does not support ends in
\* an error returned to the caller: balance, transaction_count and code_at
\* with a reference other than Latest, block_by_number and
\* block_transaction_count_by_number with Earliest or Pending.
C3_UnsupportedReferenceIsAnError ==
    /\ last.method \in {"balance", "transaction_count", "code_at"}
            /\ NotLatest(last.args.number)
        => last.outcome.kind = "err"
    /\ last.method \in {"block_by_number", "block_transaction_count_by_number"}
            /\ last.args.number \in {Earliest, Pending}
        => last.outcome.kind = "err"

\* C4: when a collaborator call of a method failed, the method's result is
\* an error with code -32603.
C4_CollaboratorFailureIsInternalError ==
    IsQuery /\ (\E k \in 1 .. Len(last.trace) : ~last.trace[k].ok) =>
        last.outcome.kind = "err" /\ last.outcome.code = InternalError

\* C5: with the head resolved and the runtime query answered, a lookup of
\* what does not exist is Ok(None): block_by_hash of an unknown hash,
\* block_by_number of a height with no block, transaction_receipt of an
\* unknown hash.
C5_AbsentIsNone ==
    IsQuery /\ last.trace # <<>> /\ (\A k \in 1 .. Len(last.trace) : last.trace[k].ok) =>
        /\ last.method = "block_by_hash"
                /\ last.args.hash \notin {EthBlockHash(n) : n \in 1 .. last.head.number}
            => last.outcome = Ok(None)
        /\ last.method = "block_by_number" /\ last.args.number.tag = "Num"
                /\ last.args.number.n \notin 1 .. last.head.number
            => last.outcome = Ok(None)
        /\ last.method = "transaction_receipt" /\ ~last.args.known
            => last.outcome = Ok(None)

C7_ReceiptFollowsExecution ==
    /\ last.method = "transaction_receipt"
    /\ last.args.returned
    /\ \A k \in 1 .. Len(last.trace) : last.trace[k].ok
    => IF last.args.processed
           THEN /\ last.outcome.kind = "ok"
                /\ last.outcome.value # None
                /\ last.outcome.value[1].transaction_hash = Some(last.args.hash)
           ELSE last.outcome = Ok(None)

\* C7, as claimed: once send_raw_transaction has returned H,
\* transaction_receipt(H) returns None in every state before the chain has
\* executed the transaction and a receipt carrying H in every state after.
C7_ReceiptInEveryState ==
    last.method = "transaction_receipt" /\ last.args.returned =>
        IF last.args.processed
            THEN /\ last.outcome.kind = "ok"
                 /\ last.outcome.value # None
                 /\ last.outcome.value[1].transaction_hash = Some(last.args.hash)
            ELSE last.outcome = Ok(None)

\* A receipt for a returned hash of an executed transaction whose payload
\* was not its own canonical encoding.
C7_Witness ==
    /\ last.method = "transaction_receipt"
    /\ last.args.returned /\ last.args.processed
    /\ last.outcome.kind = "ok"
    /\ \E i \in ReturnedAs(last.args.hash) :
           rlp_encode(submitted[i].xt.transact) # submitted[i].bytes

\* The endpoints of the features left out: eth_call, eth_estimateGas,
\* eth_getLogs, and the mining, uncle and compiler endpoints.
LeftOutMethods ==
    {"call", "estimate_gas", "logs", "work", "submit_work", "submit_hashrate",
     "block_uncles_count_by_hash", "block_uncles_count_by_number",
     "uncle_by_block_hash_and_index", "uncle_by_block_number_and_index",
     "compilers", "compile_lll", "compile_solidity", "compile_serpent"}

\* C8: every endpoint of a feature left out answers with an error: no
\* success value, no panic.
C8_LeftOutEndpointsAnswerWithAnError ==
    last.method \in LeftOutMethods => last.outcome.kind = "err"

\* C9: a send_raw_transaction call runs a prefix of decode, hash, resolve
\* head, convert, submit; hands the pool at most one extrinsic, and only
\* after decoding and head resolution succeeded, as Local and at the head
\* resolved; a head failure ends it with "fetch header failed" before the
\* converter and the pool. No call has two submissions, a rejection is one
\* "submit transaction to pool failed" error with nothing submitted again,
\* and every future resolves once and only once.
C9_Safety ==
    /\ IsSend =>
          /\ last.steps \in {<<"decode">>, <<"decode", "hash", "best_chain">>,
                              <<"decode", "hash", "best_chain", "convert", "submit_one">>}
          /\ Len(last.submits) <= 1
          /\ Len(submitted) = last.call - 1 + Len(last.submits)
          /\ last.submits # <<>> =>
                /\ last.args.decoded.ok
                /\ last.selectorOk
                /\ last.submits[1].args =
                       [at |-> last.head.hash, source |-> "Local",
                        xt |-> convert_transaction(last.args.decoded.tx)]
          /\ last.args.decoded.ok /\ ~last.selectorOk =>
                /\ last.outcome = internal_err("fetch header failed")
                /\ last.steps = <<"decode", "hash", "best_chain">>
                /\ last.submits = <<>>
    /\ \A i, j \in 1 .. Len(submitted) : submitted[i].call = submitted[j].call => i = j
    /\ \A i \in 1 .. Len(submitted) :
          /\ Len(submitted[i].resolved) <= 1
          /\ submitted[i].resolved # <<>> /\ submitted[i].resolved[1].kind # "ok" =>
                submitted[i].resolved = <<internal_err("submit transaction to pool failed")>>

C9_OrderedSingleSubmission ==
    /\ []C9_Safety
    /\ \A c \in Runs :
          (Len(submitted) >= c /\ submitted[c].resolved = <<>>)
              ~> (Len(submitted) >= c /\ submitted[c].resolved # <<>>)

\* A call stopped by the head resolver after one the pool rejected.
C9_Witness ==
    /\ IsSend /\ last.args.decoded.ok /\ ~last.selectorOk
    /\ Len(submitted) = 1
    /\ submitted[1].resolved = <<internal_err("submit transaction to pool failed")>>

\* C10: block_by_number(Number(n)) and
\* block_transaction_count_by_number(Number(n)) hand the runtime height n.
C10_RuntimeIsAskedForTheHeightGiven ==
    /\ last.method \in {"block_by_number", "block_transaction_count_by_number"}
    /\ last.args.number.tag = "Num"
    /\ Len(last.trace) = 2
    => last.trace[2].arg = last.args.number.n

====
